---- MODULE Spec2Model ----
(***************************************************************************)
(* Model of nix-find-roots (src/src/nix-find-roots/nix-find-roots.cc): the  *)
(* GC-root tracing daemon.  main parses the command line (parseCmdLine),     *)
(* sets up its listening socket and serves requests.  A request is one      *)
(* iteration of main's accept                                               *)
(* loop: followPathsToStore over <stateDir>/profiles and <stateDir>/gcroots,*)
(* getRuntimeRoots over /proc, the merge of both maps, and the line by line *)
(* response.                                                                *)
(*                                                                          *)
(* A path (std::filesystem::path) is the sequence of its components, as     *)
(* path::begin()..end() iterates them: an absolute path starts with the     *)
(* root directory "/".                                                      *)
(***************************************************************************)
EXTENDS Integers, Sequences, FiniteSets, TLC

\* Longest symlink chain the modelled filesystems contain (first link included).
MaxChain == 4

\* ------------------------------------------------------------------------
\* std::filesystem::path
\* ------------------------------------------------------------------------

RootDir == <<"/">>

IsAbsolute(p) == Len(p) > 0 /\ p[1] = "/"

\* path operator/ : an absolute right-hand side replaces the left-hand side.
PathJoin(a, b) == IF IsAbsolute(b) THEN b ELSE a \o b

\* path::parent_path
ParentPath(p) == IF p = RootDir \/ Len(p) = 0 THEN p ELSE SubSeq(p, 1, Len(p) - 1)

\* path::filename : empty for the root directory.
Filename(p) == IF p = RootDir \/ Len(p) = 0 THEN <<>> ELSE <<p[Len(p)]>>

RECURSIVE JoinChars(_)
\* std::string from its characters.
JoinChars(cs) == IF Len(cs) = 0 THEN "" ELSE Head(cs) \o JoinChars(Tail(cs))

\* sizeof(addr.sun_path) of struct sockaddr_un.
SunPathSize == 108

\* A directory name that alone fills sun_path.
LongNameChars == [i \in 1..SunPathSize |-> "x"]
LongName == JoinChars(LongNameChars)

\* Every name a path component of the model can be, in ascending order of
\* std::string comparison (byte order); paths compare component by component.
NameOrder ==
    << "\t", "\n", "..", "/", "3", "42", "7", "Bad", "a", "abc", "bin", "cwd", "d",
       "dir", "environ", "exe", "fbsplash", "fd", "gc-socket", "gcroots", "gone", "kernel",
       "l2", "l3", "l4", "l5", "l6", "maps", "modprobe", "nix", "p",
       "poweroff_cmd", "priv", "proc", "profiles", "self", "socket", "store", "sub", "sys",
       "t", "var", "x", LongName >>

NameRank(n) == CHOOSE i \in 1..Len(NameOrder) : NameOrder[i] = n

RECURSIVE PathLess(_, _)
\* path::compare(p, q) < 0
PathLess(p, q) ==
    IF Len(q) = 0 THEN FALSE
    ELSE IF Len(p) = 0 THEN TRUE
    ELSE IF p[1] = q[1] THEN PathLess(Tail(p), Tail(q))
    ELSE NameRank(p[1]) < NameRank(q[1])

\* The iteration order of a std::set<fs::path> / the keys of a std::map.
RECURSIVE SortedSeq(_)
SortedSeq(S) ==
    IF S = {} THEN <<>>
    ELSE LET m == CHOOSE x \in S : \A y \in S \ {x} : PathLess(x, y)
         IN <<m>> \o SortedSeq(S \ {m})

Reverse(s) == [i \in 1..Len(s) |-> s[Len(s) + 1 - i]]

\* std::search(hay.begin(), hay.end(), needle.begin(), needle.end()): the
\* index of the first occurrence of needle in hay, Len(hay) + 1 (end) if none.
Search(hay, needle) ==
    LET hits == { i \in 1..(Len(hay) + 1) :
                    /\ i + Len(needle) - 1 <= Len(hay)
                    /\ SubSeq(hay, i, i + Len(needle) - 1) = needle }
    IN IF hits = {} THEN Len(hay) + 1
       ELSE CHOOSE i \in hits : \A j \in hits : i <= j

\* A test that accepts storeDir at any position of dir.
isInStoreAnywhere(storeDir, dir) == Search(dir, storeDir) <= Len(dir)

isInStore(storeDir, dir) == Search(dir, storeDir) = 1

\* ------------------------------------------------------------------------
\* Configuration (GlobalOpts) and the observed environment
\* ------------------------------------------------------------------------

\* GlobalOpts' default member initialisers.
DefaultOpts ==
    [ storeDir   |-> <<"/", "nix", "store">>,
      stateDir   |-> <<"/", "nix", "var", "nix">>,
      socketPath |-> <<"/", "nix", "var", "nix", "gc-socket", "socket">>,
      verbosity  |-> "Quiet" ]

\* An element of argv after the program name: a short option -c, a long
\* option --name, or any other word (here always a path).
Short(c) == [kind |-> "short", name |-> c, path |-> <<>>]
Long(n) == [kind |-> "long", name |-> n, path |-> <<>>]
Word(p) == [kind |-> "word", name |-> "", path |-> p]

\* long_options: the value getopt_long returns for --name ("0": the flag
\* pointer of the entry is set and 0 is returned).
LongOptionChar(n) ==
    CASE n = "verbose" -> "0"
      [] n = "socket_path" -> "l"
      [] n = "store_dir" -> "s"
      [] n = "state_dir" -> "d"

\* One call of getopt_long(argc, argv, "vsl:", long_options, &option_index)
\* at the option args[i]: the value returned, optarg (hasArg FALSE: optarg
\* is a null pointer) and the index of the element scanned next.  Of the
\* short options only l takes an argument; d is not in the option string.
\* An option whose required argument is missing yields '?'.
GetoptLong(args, i) ==
    LET a == args[i]
        opt_char == IF a.kind = "long" THEN LongOptionChar(a.name)
                    ELSE IF a.name \in {"v", "s", "l"} THEN a.name ELSE "?"
        takesArg == IF a.kind = "long" THEN a.name # "verbose" ELSE a.name = "l"
    IN IF opt_char # "?" /\ takesArg
       THEN IF i < Len(args)
            THEN [opt_char |-> opt_char, hasArg |-> TRUE,
                  optarg |-> args[i + 1].path, next |-> i + 2]
            ELSE [opt_char |-> "?", hasArg |-> FALSE, optarg |-> <<>>, next |-> i + 1]
       ELSE [opt_char |-> opt_char, hasArg |-> FALSE, optarg |-> <<>>, next |-> i + 1]

Parsed(res) == [end |-> "returned", opts |-> res]
Usage(res) == [end |-> "usage", opts |-> res]
NullOptarg(res) == [end |-> "nullarg", opts |-> res]

RECURSIVE ParseLoop(_, _, _, _)
\* The while loop of parseCmdLine from args[i] on.  A word that is not an
\* option is skipped (getopt_long moves it behind the options).
\* fs::path(optarg) with a null optarg is undefined: nullPath is what the
\* build makes of it, "crash" (the process ends) or "empty" (an empty path).
ParseLoop(args, i, res, nullPath) ==
    IF i > Len(args) THEN Parsed(res)
    ELSE IF args[i].kind = "word" THEN ParseLoop(args, i + 1, res, nullPath)
    ELSE LET g == GetoptLong(args, i)
         IN CASE g.opt_char = "0" ->
                   ParseLoop(args, g.next, [res EXCEPT !.verbosity = "Verbose"], nullPath)
              [] g.opt_char = "?" -> Usage(res)
              [] g.opt_char = "v" ->
                   ParseLoop(args, g.next, [res EXCEPT !.verbosity = "Verbose"], nullPath)
              [] g.opt_char = "s" ->
                   IF g.hasArg
                   THEN ParseLoop(args, g.next, [res EXCEPT !.storeDir = g.optarg], nullPath)
                   ELSE IF nullPath = "crash" THEN NullOptarg(res)
                   ELSE ParseLoop(args, g.next, [res EXCEPT !.storeDir = <<>>], nullPath)
              [] g.opt_char = "d" ->
                   ParseLoop(args, g.next, [res EXCEPT !.stateDir = g.optarg], nullPath)
              [] g.opt_char = "l" ->
                   ParseLoop(args, g.next, [res EXCEPT !.socketPath = g.optarg], nullPath)

\* parseCmdLine(argc, argv)
parseCmdLine(args, nullPath) == ParseLoop(args, 1, DefaultOpts, nullPath)

VARIABLES
    argv,         \* the command line after the program name
    opts,         \* const GlobalOpts opts (main)
    fsys,         \* the filesystem outside /proc: path -> node
    dirRev,       \* readdir order: FALSE ascending names, TRUE descending
    proc,         \* the /proc filesystem
    state,        \* "START", "INIT", "LISTENING", "SERVING", "EXITED"
    step,         \* position inside main's loop body while SERVING
    exitCause,    \* why the process ended: "none", "usage", "nullarg",
                  \* "overflow", "startup", "accept", "exception", "sigpipe",
                  \* or the name of a signal
    mySock,       \* int mySock (main): where the socket is bound and the
                  \* permissions of the file bind created
    socketFile,   \* TRUE while a file exists at opts.socketPath
    client,       \* "none", "connected", "gone" (peer closed its end)
    traceResult,  \* TraceResult traceResult (main)
    runtimeRoots, \* Roots runtimeRoots (main)
    sendPos,      \* number of response lines already sent
    out,          \* what was sent to the client of the current request: the
                  \* bytes of each line, in the order of the sends
    previous,     \* history: the request completed before the current one
    call          \* one application of isInStore: its arguments and result

vars == << argv, opts, fsys, dirRev, proc, state, step, exitCause, mySock, socketFile,
           client, traceResult, runtimeRoots, sendPos, out, previous, call >>

\* A node of the filesystem.  kind "noaccess": lstat of the path fails with
\* an error other than ENOENT/ENOTDIR.  err: opendir of the directory fails,
\* or readlink of the symlink fails.
NoNode == [kind |-> "none", target |-> <<>>, err |-> FALSE]
DirNode(e) == [kind |-> "directory", target |-> <<>>, err |-> e]
LinkNode(t, e) == [kind |-> "symlink", target |-> t, err |-> e]
FileNode == [kind |-> "regular", target |-> <<>>, err |-> FALSE]
NoAccessNode == [kind |-> "noaccess", target |-> <<>>, err |-> FALSE]

RECURSIVE Walk(_, _, _)
\* Path resolution by the kernel: the components of p from the i-th on are
\* walked from the directory at; ".." steps from a directory to its parent.
\* The result is the path without "..", or empty when ".." is applied to
\* something that is not a directory.
Walk(p, i, at) ==
    IF i > Len(p) THEN at
    ELSE IF p[i] = ".."
         THEN IF at \in DOMAIN fsys /\ fsys[at].kind = "directory"
              THEN Walk(p, i + 1, ParentPath(at))
              ELSE <<>>
         ELSE Walk(p, i + 1, Append(at, p[i]))

Resolved(p) == IF IsAbsolute(p) THEN Walk(p, 2, RootDir) ELSE p

\* What lstat, readlink and opendir find at p.
Node(p) ==
    IF Resolved(p) \in DOMAIN fsys THEN fsys[Resolved(p)] ELSE NoNode

\* fs::symlink_status(p).type(); "error" stands for a thrown filesystem_error.
SymlinkStatus(p) ==
    CASE Node(p).kind = "none" -> "not_found"
      [] Node(p).kind = "noaccess" -> "error"
      [] OTHER -> Node(p).kind

\* fs::exists(p) for the paths probed by the tracer (never a symlink here).
Exists(p) == SymlinkStatus(p) \notin {"not_found", "error"}

\* The entries of directory d in readdir order.
DirEntries(d) ==
    LET at == Resolved(d)
        es == { Append(d, p[Len(p)]) :
                  p \in { q \in DOMAIN fsys :
                            /\ Len(q) = Len(at) + 1
                            /\ SubSeq(q, 1, Len(at)) = at
                            /\ fsys[q].kind # "none" } }
    IN IF dirRev THEN Reverse(SortedSeq(es)) ELSE SortedSeq(es)

RECURSIVE RecursiveDirSeq(_)
RECURSIVE RecursiveDirFrom(_, _)
\* fs::recursive_directory_iterator(d): every descendant of d in pre-order.
\* A symlink to a directory is not descended (default directory_options).
\* An unreadable sub-directory is listed but not descended: the loop body
\* of followPathToStore throws on it before the iterator is incremented.
RecursiveDirSeq(d) == RecursiveDirFrom(DirEntries(d), 1)
RecursiveDirFrom(es, i) ==
    IF i > Len(es) THEN <<>>
    ELSE <<es[i]>>
         \o (IF Node(es[i]).kind = "directory" /\ ~Node(es[i]).err
             THEN RecursiveDirSeq(es[i]) ELSE <<>>)
         \o RecursiveDirFrom(es, i + 1)

\* ------------------------------------------------------------------------
\* Filesystem tracer
\* ------------------------------------------------------------------------

EmptyRoots == [k \in {} |-> {}]
EmptyTrace == [storeRoots |-> EmptyRoots, deadLinks |-> {}]

\* roots[k].insert(r) on a std::map<fs::path, std::set<fs::path>>.
InsertRoot(roots, k, r) ==
    [x \in DOMAIN roots \cup {k} |->
        IF x = k THEN (IF k \in DOMAIN roots THEN roots[k] ELSE {}) \cup {r}
        ELSE roots[x]]

\* int maxRecursionLevel = 2 (followPathsToStore).
maxRecursionLevel == 2

\* root.parent_path() / fs::read_symlink(root)
SymlinkTarget(root) == PathJoin(ParentPath(root), Node(root).target)

\* The not_found lambda: res.deadLinks.insert(root).  It does not return
\* from followPathToStore.
notFound(res, root) == [res EXCEPT !.deadLinks = @ \cup {root}]

\* res.storeRoots[target].insert(root) of the symlink case.
RecordStoreTarget(res, target, root) ==
    [res EXCEPT !.storeRoots = InsertRoot(@, target, root)]

\* A regular case that records the probed path without testing that it exists.
RegularCaseUnprobed(res, root) ==
    [res EXCEPT !.storeRoots =
        InsertRoot(@, PathJoin(opts.storeDir, Filename(root)), root)]

\* case fs::file_type::regular: the probe of storeDir / root.filename().
RegularCase(res, root) ==
    LET possibleStorePath == PathJoin(opts.storeDir, Filename(root))
    IN IF Exists(possibleStorePath)
       THEN [res EXCEPT !.storeRoots = InsertRoot(@, possibleStorePath, root)]
       ELSE res

Returned(res) == [res |-> res, exc |-> FALSE]
Thrown(res) == [res |-> res, exc |-> TRUE]

RECURSIVE followPathToStore(_, _, _, _)
RECURSIVE FollowChildrenCharged(_, _, _, _)
RECURSIVE FollowChildren(_, _, _, _)
\* followPathToStore(opts, recursionsLeft, res, root, status).  The result is
\* res after the call and whether a filesystem_error left the call.
followPathToStore(recursionsLeft, res, root, status) ==
    IF recursionsLeft < 0 THEN Returned(res)
    ELSE CASE status = "directory" ->
                IF Node(root).err THEN Thrown(res)
                ELSE FollowChildren(recursionsLeft, res, RecursiveDirSeq(root), 1)
           [] status = "symlink" ->
                IF Node(root).err THEN Thrown(res)
                ELSE LET target == SymlinkTarget(root)
                         target_status == SymlinkStatus(target)
                     IN IF target_status = "error"
                        THEN Returned(RegularCase(notFound(res, root), root))
                        ELSE LET r1 == IF target_status = "not_found"
                                       THEN notFound(res, root) ELSE res
                             IN IF isInStore(opts.storeDir, target)
                                THEN Returned(RecordStoreTarget(r1, target, root))
                                ELSE LET inner == followPathToStore(
                                            recursionsLeft - 1, r1, target, target_status)
                                     IN Returned(RegularCase(
                                            IF inner.exc THEN notFound(inner.res, root)
                                            ELSE inner.res, root))
           [] status = "regular" -> Returned(RegularCase(res, root))
           [] OTHER -> Returned(res)

\* A directory loop that takes one hop off the budget of the entries.
FollowChildrenCharged(recursionsLeft, res, children, i) ==
    IF i > Len(children) THEN Returned(res)
    ELSE LET status == SymlinkStatus(children[i])
             r == IF status = "error" THEN Thrown(res)
                  ELSE followPathToStore(recursionsLeft - 1, res, children[i], status)
         IN IF r.exc THEN r
            ELSE FollowChildrenCharged(recursionsLeft, r.res, children, i + 1)

\* for (auto & child : directory_iterator) followPathToStore(..., child.path(),
\* child.symlink_status()): the first exception ends the loop.
FollowChildren(recursionsLeft, res, children, i) ==
    IF i > Len(children) THEN Returned(res)
    ELSE LET status == SymlinkStatus(children[i])
             r == IF status = "error" THEN Thrown(res)
                  ELSE followPathToStore(recursionsLeft, res, children[i], status)
         IN IF r.exc THEN r
            ELSE FollowChildren(recursionsLeft, r.res, children, i + 1)

\* followPathToStore(opts, recursionsLeft, res, root): the overload that
\* stats root and logs any filesystem_error.
followPathToStoreRoot(recursionsLeft, res, root) ==
    LET status == SymlinkStatus(root)
    IN IF status = "error" THEN res
       ELSE followPathToStore(recursionsLeft, res, root, status).res

RECURSIVE FollowRoots(_, _, _)
FollowRoots(res, roots, i) ==
    IF i > Len(roots) THEN res
    ELSE FollowRoots(followPathToStoreRoot(maxRecursionLevel, res, roots[i]),
                     roots, i + 1)

\* followPathsToStore(opts, roots)
followPathsToStore(roots) == FollowRoots(EmptyTrace, SortedSeq(roots), 1)

Seen(calls) == [seen |-> calls, exc |-> FALSE]
SeenThrown(calls) == [seen |-> calls, exc |-> TRUE]

RECURSIVE ConsideredUncut(_, _, _)
RECURSIVE Considered(_, _, _)
RECURSIVE ConsideredChildren(_, _, _, _)
\* An invocation that gives up one hop later.
ConsideredUncut(recursionsLeft, root, status) ==
    LET this == { <<root, recursionsLeft>> }
    IN IF recursionsLeft < -1 THEN Seen(this)
       ELSE CASE status = "directory" ->
                   IF Node(root).err THEN SeenThrown(this)
                   ELSE ConsideredChildren(recursionsLeft, this, RecursiveDirSeq(root), 1)
              [] status = "symlink" ->
                   IF Node(root).err THEN SeenThrown(this)
                   ELSE LET target == SymlinkTarget(root)
                            target_status == SymlinkStatus(target)
                        IN IF target_status = "error" \/ isInStore(opts.storeDir, target)
                           THEN Seen(this)
                           ELSE Seen(this \cup Considered(recursionsLeft - 1, target,
                                                          target_status).seen)
              [] OTHER -> Seen(this)

\* The invocations of followPathToStore(opts, recursionsLeft, res, root,
\* status) that one invocation makes, itself included, each as the pair of
\* its root and its recursionsLeft (every invocation logs "Considering file"
\* before the test of recursionsLeft); and whether a filesystem_error left
\* the call.
Considered(recursionsLeft, root, status) ==
    LET this == { <<root, recursionsLeft>> }
    IN IF recursionsLeft < 0 THEN Seen(this)
       ELSE CASE status = "directory" ->
                   IF Node(root).err THEN SeenThrown(this)
                   ELSE ConsideredChildren(recursionsLeft, this, RecursiveDirSeq(root), 1)
              [] status = "symlink" ->
                   IF Node(root).err THEN SeenThrown(this)
                   ELSE LET target == SymlinkTarget(root)
                            target_status == SymlinkStatus(target)
                        IN IF target_status = "error" \/ isInStore(opts.storeDir, target)
                           THEN Seen(this)
                           ELSE Seen(this \cup Considered(recursionsLeft - 1, target,
                                                          target_status).seen)
              [] OTHER -> Seen(this)

\* The invocations made by the loop over the recursive_directory_iterator.
ConsideredChildren(recursionsLeft, seen, children, i) ==
    IF i > Len(children) THEN Seen(seen)
    ELSE LET status == SymlinkStatus(children[i])
             r == IF status = "error" THEN SeenThrown({})
                  ELSE Considered(recursionsLeft, children[i], status)
         IN IF r.exc THEN SeenThrown(seen \cup r.seen)
            ELSE ConsideredChildren(recursionsLeft, seen \cup r.seen, children, i + 1)

\* The invocations made for one starting path, and for all of them.
ConsideredFrom(root) ==
    LET status == SymlinkStatus(root)
    IN IF status = "error" THEN {}
       ELSE Considered(maxRecursionLevel, root, status).seen
Invocations(roots) == UNION { ConsideredFrom(root) : root \in roots }
ConsideredPaths(roots) == { c[1] : c \in Invocations(roots) }

\* const set<fs::path> standardRoots (main)
standardRoots ==
    { PathJoin(opts.stateDir, <<"profiles">>), PathJoin(opts.stateDir, <<"gcroots">>) }

\* ------------------------------------------------------------------------
\* Text: file contents and regular expressions
\* ------------------------------------------------------------------------

\* A text is a sequence of characters (strings of length 1).
Digits == {"0", "1", "2", "3", "4", "5", "6", "7", "8", "9"}
LowerCase == {"a", "b", "c", "d", "e", "f", "g", "h", "i", "j", "k", "l", "m",
              "n", "o", "p", "q", "r", "s", "t", "u", "v", "w", "x", "y", "z"}
UpperCase == {"A", "B", "C", "D", "E", "F", "G", "H", "I", "J", "K", "L", "M",
              "N", "O", "P", "Q", "R", "S", "T", "U", "V", "W", "X", "Y", "Z"}
WhiteSpace == {" ", "\t", "\n"}

\* [0-9a-z] and [0-9a-zA-Z\+\-\._\?=] of storePathRegex.
NameFirstClass == Digits \cup LowerCase
NameRestClass == Digits \cup LowerCase \cup UpperCase \cup {"+", "-", ".", "_", "?", "="}

\* The characters of a path component.
CharsOf(n) ==
    CASE n = "/" -> <<"/">>
      [] n = "3" -> <<"3">>
      [] n = "42" -> <<"4", "2">>
      [] n = "7" -> <<"7">>
      [] n = "Bad" -> <<"B", "a", "d">>
      [] n = "a" -> <<"a">>
      [] n = "abc" -> <<"a", "b", "c">>
      [] n = "bin" -> <<"b", "i", "n">>
      [] n = "cwd" -> <<"c", "w", "d">>
      [] n = "d" -> <<"d">>
      [] n = "environ" -> <<"e", "n", "v", "i", "r", "o", "n">>
      [] n = "exe" -> <<"e", "x", "e">>
      [] n = "fbsplash" -> <<"f", "b", "s", "p", "l", "a", "s", "h">>
      [] n = "fd" -> <<"f", "d">>
      [] n = "gcroots" -> <<"g", "c", "r", "o", "o", "t", "s">>
      [] n = "gone" -> <<"g", "o", "n", "e">>
      [] n = "kernel" -> <<"k", "e", "r", "n", "e", "l">>
      [] n = "l2" -> <<"l", "2">>
      [] n = "l3" -> <<"l", "3">>
      [] n = "l4" -> <<"l", "4">>
      [] n = "l5" -> <<"l", "5">>
      [] n = "l6" -> <<"l", "6">>
      [] n = "maps" -> <<"m", "a", "p", "s">>
      [] n = "modprobe" -> <<"m", "o", "d", "p", "r", "o", "b", "e">>
      [] n = "nix" -> <<"n", "i", "x">>
      [] n = "p" -> <<"p">>
      [] n = "poweroff_cmd" -> <<"p", "o", "w", "e", "r", "o", "f", "f", "_", "c", "m", "d">>
      [] n = "priv" -> <<"p", "r", "i", "v">>
      [] n = "proc" -> <<"p", "r", "o", "c">>
      [] n = "profiles" -> <<"p", "r", "o", "f", "i", "l", "e", "s">>
      [] n = "self" -> <<"s", "e", "l", "f">>
      [] n = "store" -> <<"s", "t", "o", "r", "e">>
      [] n = "sub" -> <<"s", "u", "b">>
      [] n = "sys" -> <<"s", "y", "s">>
      [] n = "t" -> <<"t">>
      [] n = "var" -> <<"v", "a", "r">>
      [] n = "x" -> <<"x">>
      [] n = "dir" -> <<"d", "i", "r">>
      [] n = ".." -> <<".", ".">>
      [] n = "gc-socket" -> <<"g", "c", "-", "s", "o", "c", "k", "e", "t">>
      [] n = "socket" -> <<"s", "o", "c", "k", "e", "t">>
      [] n = LongName -> LongNameChars
      [] n = "\n" -> <<"\n">>
      [] n = "\t" -> <<"\t">>

RECURSIVE PathString(_)
\* path::string() of a path
PathString(p) ==
    IF Len(p) = 0 THEN <<>>
    ELSE IF Len(p) = 1 THEN CharsOf(p[1])
    ELSE IF p[1] = "/" THEN <<"/">> \o PathString(Tail(p))
    ELSE CharsOf(p[1]) \o <<"/">> \o PathString(Tail(p))

RECURSIVE SplitNames(_, _, _)
\* The names of text cs from index i on, cur being the name read so far; a
\* trailing separator yields an empty last name, as path iteration does.
SplitNames(cs, i, cur) ==
    IF i > Len(cs)
    THEN IF Len(cur) > 0 THEN <<JoinChars(cur)>>
         ELSE IF Len(cs) > 1 /\ cs[Len(cs)] = "/" THEN <<"">> ELSE <<>>
    ELSE IF cs[i] = "/"
         THEN (IF Len(cur) > 0 THEN <<JoinChars(cur)>> ELSE <<>>)
              \o SplitNames(cs, i + 1, <<>>)
         ELSE SplitNames(cs, i + 1, Append(cur, cs[i]))

\* fs::path(std::string): the components of the text.
ParsePath(cs) ==
    IF Len(cs) = 0 THEN <<>>
    ELSE IF cs[1] = "/" THEN <<"/">> \o SplitNames(cs, 2, <<>>)
    ELSE SplitNames(cs, 1, <<>>)

RECURSIVE RunEnd(_, _, _)
\* The last index of the longest run of characters of class cls that starts
\* at index i of cs (i - 1 when cs[i] is not in cls).
RunEnd(cs, i, cls) ==
    IF i <= Len(cs) /\ cs[i] \in cls THEN RunEnd(cs, i + 1, cls) ELSE i - 1

\* storePathRegex(storeDir) matched at index i of content: the index of the
\* match's last character, 0 when there is no match at i.
StorePathMatchEnd(storeDir, content, i) ==
    LET prefix == PathString(storeDir) \o <<"/">>
        n == i + Len(prefix)
    IN IF /\ n <= Len(content)
          /\ SubSeq(content, i, n - 1) = prefix
          /\ content[n] \in NameFirstClass
       THEN RunEnd(content, n + 1, NameRestClass)
       ELSE 0

RECURSIVE StorePathMatches(_, _, _)
\* std::sregex_iterator over content: the successive leftmost matches.
StorePathMatches(storeDir, content, i) ==
    IF i > Len(content) THEN <<>>
    ELSE LET e == StorePathMatchEnd(storeDir, content, i)
         IN IF e = 0 THEN StorePathMatches(storeDir, content, i + 1)
            ELSE <<SubSeq(content, i, e)>> \o StorePathMatches(storeDir, content, e + 1)

RECURSIVE SplitOn(_, _, _, _)
\* The maximal runs of characters outside seps, in order; with keepEmpty the
\* empty runs between two separators are kept (std::getline).
SplitOn(cs, seps, keepEmpty, cur) ==
    IF Len(cs) = 0
    THEN IF Len(cur) > 0 THEN <<cur>> ELSE <<>>
    ELSE IF Head(cs) \in seps
         THEN (IF Len(cur) > 0 \/ keepEmpty THEN <<cur>> ELSE <<>>)
              \o SplitOn(Tail(cs), seps, keepEmpty, <<>>)
         ELSE SplitOn(Tail(cs), seps, keepEmpty, Append(cur, Head(cs)))

\* mapRegex matched against a line: the text of capture group 1, or the
\* empty text when the line does not match.  The line matches when it has
\* exactly six blank-separated fields and the sixth is "/" and one or more
\* non-blank characters.
MapsLineMatch(line) ==
    LET fields == SplitOn(line, WhiteSpace, FALSE, <<>>)
    IN IF Len(fields) = 6 /\ Len(fields[6]) >= 2 /\ fields[6][1] = "/"
       THEN fields[6] ELSE <<>>

\* ------------------------------------------------------------------------
\* Runtime-root scanner
\* ------------------------------------------------------------------------

\* proc is a record:
\*   exists   fs::exists("/proc")
\*   listErr  enumerating /proc throws a filesystem_error
\*   entries  the entries of /proc in readdir order, each a record
\*              name     the entry's name (a text)
\*              isDir    procEntry.is_directory()
\*              exe, cwd a link: [ok, target], ok = FALSE when readlink fails
\*              fds      the entries of fd/ listed before fdErr: [name, link]
\*              fdErr    "none", or the errno that ended the listing of fd/
\*              environ, maps   a file: [exists, text]
\*   kernel   the files modprobe, fbsplash, poweroff_cmd of /proc/sys/kernel
procDir == <<"/", "proc">>

NoLink == [ok |-> FALSE, target |-> <<>>]
Link(t) == [ok |-> TRUE, target |-> t]
NoFile == [exists |-> FALSE, text |-> <<>>]
File(t) == [exists |-> TRUE, text |-> t]

\* std::regex_match(name, digitsRegex), digitsRegex = ^\d+$
IsDigits(name) == Len(name) > 0 /\ \A i \in 1..Len(name) : name[i] \in Digits

RECURSIVE InsertMatches(_, _, _, _)
InsertMatches(res, matches, i, fileToScan) ==
    IF i > Len(matches) THEN res
    ELSE InsertMatches(InsertRoot(res, ParsePath(matches[i]), fileToScan),
                       matches, i + 1, fileToScan)

\* scanFileContent(opts, fileToScan, res); file is what fileToScan holds.
scanFileContent(fileToScan, file, res) ==
    IF ~file.exists THEN res
    ELSE InsertMatches(res, StorePathMatches(opts.storeDir, file.text, 1), 1, fileToScan)

RECURSIVE ScanMapsLines(_, _, _, _)
ScanMapsLines(res, lines, i, mapsFile) ==
    IF i > Len(lines) THEN res
    ELSE LET match == MapsLineMatch(lines[i])
             matchedPath == ParsePath(match)
         IN ScanMapsLines(
                IF Len(match) > 0 /\ isInStore(opts.storeDir, matchedPath)
                THEN InsertRoot(res, matchedPath, mapsFile) ELSE res,
                lines, i + 1, mapsFile)

\* scanMapsFile(opts, mapsFile, res)
scanMapsFile(mapsFile, file, res) ==
    IF ~file.exists THEN res
    ELSE ScanMapsLines(res, SplitOn(file.text, {"\n"}, TRUE, <<>>), 1, mapsFile)

\* A catch clause that swallows every error of the listing of fd/.
FdErrorRethrownNever(errno) == FALSE

\* A catch clause that rethrows every error of the listing of fd/.
FdErrorRethrownAlways(errno) == errno # "none"

\* if (e.code().value() != ENOENT && e.code().value() != EACCES) throw;
FdErrorRethrown(errno) == errno \notin {"none", "ENOENT", "EACCES"}

\* pathsToConsider of a /proc entry, each path with the link found there.
PathsToConsider(entryPath, e) ==
    { [path |-> PathJoin(entryPath, <<"exe">>), link |-> e.exe],
      [path |-> PathJoin(entryPath, <<"cwd">>), link |-> e.cwd] }
    \cup { [path |-> PathJoin(entryPath, <<"fd", JoinChars(e.fds[i].name)>>),
            link |-> e.fds[i].link] : i \in 1..Len(e.fds) }

RECURSIVE ReadLinks(_, _)
\* for (auto & path : pathsToConsider) try { read_symlink; isInStore; insert }
ReadLinks(res, todo) ==
    IF todo = {} THEN res
    ELSE LET c == CHOOSE x \in todo : TRUE
             realPath == c.link.target
         IN ReadLinks(
                IF c.link.ok /\ isInStore(opts.storeDir, realPath)
                THEN InsertRoot(res, realPath, c.path) ELSE res,
                todo \ {c})

\* A loop body that inspects every entry of /proc.
ScanProcEntryUnfiltered(res, e) ==
    LET entryPath == PathJoin(procDir, <<JoinChars(e.name)>>)
    IN IF FdErrorRethrown(e.fdErr) THEN Thrown(res)
       ELSE Returned(
              scanMapsFile(PathJoin(entryPath, <<"maps">>), e.maps,
                scanFileContent(PathJoin(entryPath, <<"environ">>), e.environ,
                  ReadLinks(res, PathsToConsider(entryPath, e)))))

\* The body of the loop over /proc for one entry.
ScanProcEntry(res, e) ==
    LET entryPath == PathJoin(procDir, <<JoinChars(e.name)>>)
    IN IF ~IsDigits(e.name) \/ ~e.isDir THEN Returned(res)
       ELSE IF FdErrorRethrown(e.fdErr) THEN Thrown(res)
       ELSE Returned(
              scanMapsFile(PathJoin(entryPath, <<"maps">>), e.maps,
                scanFileContent(PathJoin(entryPath, <<"environ">>), e.environ,
                  ReadLinks(res, PathsToConsider(entryPath, e)))))

RECURSIVE ScanProcEntries(_, _, _)
ScanProcEntries(res, entries, i) ==
    IF i > Len(entries) THEN Returned(res)
    ELSE LET r == ScanProcEntry(res, entries[i])
         IN IF r.exc THEN r ELSE ScanProcEntries(r.res, entries, i + 1)

KernelFiles == <<"modprobe", "fbsplash", "poweroff_cmd">>

RECURSIVE ScanKernelFiles(_, _)
ScanKernelFiles(res, i) ==
    IF i > Len(KernelFiles) THEN res
    ELSE ScanKernelFiles(
            scanFileContent(PathJoin(procDir, <<"sys", "kernel", KernelFiles[i]>>),
                            proc.kernel[KernelFiles[i]], res),
            i + 1)

\* getRuntimeRoots(opts): the map returned, or exc when a filesystem_error
\* leaves the function.
getRuntimeRoots ==
    IF ~proc.exists THEN Returned(EmptyRoots)
    ELSE IF proc.listErr THEN Thrown(EmptyRoots)
    ELSE LET r == ScanProcEntries(EmptyRoots, proc.entries, 1)
         IN IF r.exc THEN r ELSE Returned(ScanKernelFiles(r.res, 1))

\* traceResult.storeRoots.insert(runtimeRoots.begin(), runtimeRoots.end()):
\* std::map::insert leaves an element whose key is already present untouched.
MapInsertRange(into, from) ==
    [k \in DOMAIN into \cup DOMAIN from |->
        IF k \in DOMAIN into THEN into[k] ELSE from[k]]

\* ------------------------------------------------------------------------
\* The environments the daemon is started in
\* ------------------------------------------------------------------------

storePath == DefaultOpts.storeDir
gcroots == PathJoin(DefaultOpts.stateDir, <<"gcroots">>)
profiles == PathJoin(DefaultOpts.stateDir, <<"profiles">>)
outside == <<"/", "t">>

\* The links of a symlink chain: the first one lies under gcroots, the
\* others outside the state and store directories.
LinkNames == <<"a", "l2", "l3", "l4", "l5", "l6">>
ChainLink(i) == IF i = 1 THEN PathJoin(gcroots, <<"a">>)
                ELSE PathJoin(outside, <<LinkNames[i]>>)

\* Where the last link of a chain may point.
ChainEnds ==
    { PathJoin(storePath, <<"abc">>),          \* a store object
      PathJoin(storePath, <<"abc", "bin">>),   \* below a store object
      storePath,                               \* the store directory itself
      PathJoin(storePath, <<"gone">>),         \* inside the store, missing
      PathJoin(storePath, <<"Bad">>),          \* not a store object name
      PathJoin(outside, <<"gone">>),           \* outside the store, missing
      PathJoin(outside, <<"priv">>),           \* lstat fails
      PathJoin(outside, <<"dir">>),            \* a directory
      ChainLink(1) }                           \* a cycle

FsPaths ==
    { RootDir, <<"/", "nix">>, <<"/", "nix", "var">>, DefaultOpts.stateDir,
      storePath, outside, gcroots, profiles }
    \cup { ChainLink(i) : i \in 1..MaxChain }
    \cup ChainEnds
    \cup { PathJoin(gcroots, <<"\n">>), PathJoin(storePath, <<"Bad", "abc">>) }
    \cup { PathJoin(gcroots, <<"abc">>), PathJoin(gcroots, <<"d">>),
           PathJoin(gcroots, <<"d", "abc">>), PathJoin(profiles, <<"p">>),
           PathJoin(outside, <<"dir", "sub">>), PathJoin(outside, <<"dir", "abc">>) }

\* A filesystem: the chain a -> l2 -> ... of n links that ends at chainEnd
\* (lastErr: readlink of the last link fails), and the other entries.
MakeFs(n, chainEnd, lastErr, abcNode, dNode, withProfile, subNode, dirAbcNode, storeAbc) ==
    [ p \in FsPaths |->
        CASE p \in { RootDir, <<"/", "nix">>, <<"/", "nix", "var">>,
                     DefaultOpts.stateDir, storePath, outside, gcroots }
                -> DirNode(FALSE)
          [] \E i \in 1..MaxChain : p = ChainLink(i)
                -> LET i == CHOOSE j \in 1..MaxChain : p = ChainLink(j)
                   IN IF i > n THEN NoNode
                      ELSE IF i < n THEN LinkNode(ChainLink(i + 1), FALSE)
                      ELSE LinkNode(chainEnd, lastErr)
          [] p = PathJoin(gcroots, <<"abc">>) -> abcNode
          [] p = PathJoin(gcroots, <<"d">>) -> dNode
          [] p = PathJoin(gcroots, <<"d", "abc">>)
                -> IF dNode.kind = "directory" THEN FileNode ELSE NoNode
          [] p = profiles -> IF withProfile THEN DirNode(FALSE) ELSE NoNode
          [] p = PathJoin(profiles, <<"p">>)
                -> IF withProfile
                   THEN LinkNode(PathJoin(storePath, <<"abc">>), FALSE) ELSE NoNode
          [] p = PathJoin(outside, <<"dir">>) -> DirNode(FALSE)
          [] p = PathJoin(outside, <<"dir", "sub">>) -> subNode
          [] p = PathJoin(outside, <<"dir", "abc">>) -> dirAbcNode
          [] p = PathJoin(outside, <<"priv">>) -> NoAccessNode
          [] p = PathJoin(storePath, <<"abc">>)
                -> IF storeAbc THEN DirNode(FALSE) ELSE NoNode
          [] p = PathJoin(storePath, <<"abc", "bin">>)
                -> IF storeAbc THEN FileNode ELSE NoNode
          [] p = PathJoin(storePath, <<"Bad">>) -> DirNode(FALSE)
          [] OTHER -> NoNode ]

\* The filesystems of the tracer's cases.
DirContents ==
    { <<NoNode, NoNode>>, <<DirNode(FALSE), FileNode>>, <<DirNode(TRUE), FileNode>>,
      <<LinkNode(PathJoin(outside, <<"gone">>), TRUE), FileNode>> }

GcrootsAbcNodes == { NoNode, FileNode, LinkNode(PathJoin(outside, <<"gone">>), FALSE) }

\* Filesystems with a symlink chain of every length and end.
FsChains ==
    { MakeFs(c[1], c[2], c[3], abcNode, NoNode, FALSE, NoNode, NoNode, storeAbc) :
        c \in { <<n, e, FALSE>> :
                  n \in 1..MaxChain, e \in ChainEnds \ {PathJoin(outside, <<"dir">>)} }
              \cup { <<n, storePath, TRUE>> : n \in 1..MaxChain },
        abcNode \in GcrootsAbcNodes,
        storeAbc \in BOOLEAN }

\* Filesystems with directories: a chain that ends at the directory /t/dir,
\* and the entries of gcroots and profiles.
FsDirs ==
    { MakeFs(n, PathJoin(outside, <<"dir">>), FALSE, NoNode, NoNode, FALSE,
             dc[1], dc[2], storeAbc) :
        n \in 1..MaxChain, dc \in DirContents, storeAbc \in BOOLEAN }
    \cup
    { MakeFs(n, PathJoin(storePath, <<"abc">>), FALSE, abcNode, dNode, withProfile,
             NoNode, NoNode, storeAbc) :
        n \in 0..1,
        abcNode \in GcrootsAbcNodes \cup { LinkNode(PathJoin(outside, <<"dir">>), FALSE) },
        dNode \in { NoNode, DirNode(FALSE), DirNode(TRUE) },
        withProfile \in BOOLEAN,
        storeAbc \in BOOLEAN }

\* A few filesystems for the cases of the runtime-root scanner.
FsSmall ==
    { MakeFs(n, PathJoin(storePath, <<"abc">>), FALSE, NoNode, NoNode, FALSE,
             NoNode, NoNode, TRUE) : n \in 0..1 }

\* Filesystems with an entry of gcroots whose name is a newline character:
\* a link into the store, or a link to a missing path.
FsOddNames ==
    { [ MakeFs(n, PathJoin(storePath, <<"abc">>), FALSE, NoNode, NoNode, FALSE,
               NoNode, NoNode, TRUE)
          EXCEPT ![PathJoin(gcroots, <<"\n">>)] = LinkNode(t, FALSE) ] :
        n \in 0..1,
        t \in { PathJoin(storePath, <<"abc">>), PathJoin(outside, <<"gone">>) } }

\* Filesystems whose chain ends at /nix, a directory that encloses both the
\* store and the link itself; the store holds a regular file Bad/abc.
FsAncestor ==
    { [ MakeFs(n, <<"/", "nix">>, FALSE, NoNode, NoNode, FALSE,
               NoNode, NoNode, storeAbc)
          EXCEPT ![PathJoin(storePath, <<"Bad", "abc">>)] = FileNode ] :
        n \in 1..MaxChain, storeAbc \in BOOLEAN }

\* A relative path from gcroots to a store object.
RelativeStoreObject == <<"..", "..", "..", "store", "abc">>

\* Filesystems with links under gcroots whose target is relative and reaches
\* the store through "..".
FsRelative ==
    { MakeFs(n, RelativeStoreObject, FALSE, abcNode, NoNode, FALSE,
             NoNode, NoNode, storeAbc) :
        n \in 0..1,
        abcNode \in { NoNode, LinkNode(RelativeStoreObject, FALSE) },
        storeAbc \in BOOLEAN }

\* Texts of the scanned files.
EnvText(p) == <<"x", "=">> \o PathString(p) \o <<":", "y">>
MapsText(p) == <<"a", " ", "r", " ", "o", " ", "d", " ", "i", " ">> \o PathString(p) \o <<"\n">>

ProcLinks ==
    { NoLink, Link(PathJoin(storePath, <<"abc">>)),
      Link(PathJoin(storePath, <<"abc", "bin">>)), Link(PathJoin(outside, <<"x">>)) }

\* A process entry of /proc; its cwd link can be read when its exe link can.
Process(name, isDir, exe, fds, fdErr, environ, maps) ==
    [ name |-> name, isDir |-> isDir, exe |-> exe,
      cwd |-> IF exe.ok THEN Link(outside) ELSE NoLink,
      fds |-> fds, fdErr |-> fdErr, environ |-> environ, maps |-> maps ]

NoKernelFiles == [f \in {"modprobe", "fbsplash", "poweroff_cmd"} |-> NoFile]

MakeProc(exists, listErr, entries, modprobe) ==
    [ exists |-> exists, listErr |-> listErr, entries |-> entries,
      kernel |-> [NoKernelFiles EXCEPT !["modprobe"] = modprobe] ]

\* /proc as the tracer's cases see it: no process, or one running from the store.
ProcSmall ==
    { MakeProc(TRUE, FALSE, <<>>, NoFile),
      MakeProc(TRUE, FALSE,
               << Process(<<"4", "2">>, TRUE, Link(PathJoin(storePath, <<"abc">>)),
                          <<>>, "none", NoFile, NoFile) >>,
               NoFile) }

\* /proc of the runtime-root scanner's cases.
ProcFamily ==
    { MakeProc(FALSE, FALSE, <<>>, NoFile), MakeProc(TRUE, TRUE, <<>>, NoFile) }
    \cup
    { MakeProc(TRUE, FALSE,
               << Process(<<"4", "2">>, TRUE, exe, fds, fdErr, files[1], files[2]) >> \o other,
               files[3]) :
        exe \in ProcLinks,
        fds \in { <<>>, << [name |-> <<"3">>, link |-> Link(PathJoin(storePath, <<"abc">>))] >> },
        fdErr \in { "none", "ENOENT", "EACCES", "EIO" },
        files \in { <<NoFile, NoFile, NoFile>>,
                    <<NoFile, NoFile,
                      File(PathString(PathJoin(storePath, <<"abc", "bin">>)))>>,
                    <<File(EnvText(PathJoin(storePath, <<"abc", "bin">>))),
                      File(MapsText(PathJoin(storePath, <<"abc", "bin">>))),
                      NoFile>>,
                    <<File(EnvText(PathJoin(storePath, <<"Bad">>))),
                      File(MapsText(PathJoin(outside, <<"x">>))),
                      File(PathString(PathJoin(storePath, <<"abc", "bin">>)))>> },
        other \in { <<>>,
                    << Process(<<"s", "e", "l", "f">>, TRUE,
                               Link(PathJoin(storePath, <<"abc">>)), <<>>, "none",
                               NoFile, NoFile) >>,
                    << Process(<<"7">>, FALSE,
                               Link(PathJoin(storePath, <<"abc">>)), <<>>, "none",
                               NoFile, NoFile) >>,
                    << Process(<<"7">>, TRUE,
                               Link(PathJoin(storePath, <<"abc">>)), <<>>, "none",
                               NoFile, NoFile) >> } }

\* ------------------------------------------------------------------------
\* The daemon: main
\* ------------------------------------------------------------------------

\* The filesystem and /proc of the command-line cases.
FsOne == MakeFs(1, PathJoin(storePath, <<"abc">>), FALSE, NoNode, NoNode, FALSE,
                NoNode, NoNode, TRUE)
ProcNone == MakeProc(TRUE, FALSE, <<>>, NoFile)

\* A socket path that does not fit into sun_path.
LongSocketPath == <<"/", "t", LongName, "socket">>

\* One option as it is written on the command line, with its argument.
OptionForms ==
    { <<Short("v")>>, <<Long("verbose")>> }
    \cup { <<o, Word(p)>> : o \in { Short("l"), Long("socket_path") },
                            p \in { PathJoin(outside, <<"x">>), LongSocketPath } }
    \cup { <<o, Word(outside)>> :
             o \in { Short("s"), Long("store_dir"), Short("d"), Long("state_dir") } }

\* The command lines: no option, one option, two options, and an option
\* whose argument is missing.
ArgvFamily ==
    OptionForms
    \cup { a \o b : a \in OptionForms, b \in OptionForms }
    \cup { a \o <<Short("l")>> : a \in { <<>>, <<Short("v")>> } }

\* mySock before bind, and after the process has ended.
NoSocket == [bound |-> "none", mode |-> "none"]

\* No request has been completed yet.
NoPrevious == [served |-> FALSE, result |-> EmptyTrace, bytes |-> <<>>]

\* isInStore is not being applied on its own.
NoCall == [storeDir |-> <<>>, dir |-> <<>>, done |-> FALSE, result |-> FALSE]

Init ==
    /\ opts = DefaultOpts
    /\ call = NoCall
    /\ \/ argv = <<>> /\ fsys \in FsChains /\ dirRev = FALSE /\ proc \in ProcSmall
       \/ argv = <<>> /\ fsys \in FsDirs /\ dirRev \in BOOLEAN /\ proc \in ProcSmall
       \/ argv = <<>> /\ fsys \in FsOddNames /\ dirRev = FALSE /\ proc \in ProcSmall
       \/ argv = <<>> /\ fsys \in FsAncestor /\ dirRev = FALSE /\ proc \in ProcSmall
       \/ argv = <<>> /\ fsys \in FsRelative /\ dirRev = FALSE /\ proc \in ProcSmall
       \/ argv = <<>> /\ fsys \in FsSmall /\ dirRev = FALSE /\ proc \in ProcFamily
       \/ argv \in ArgvFamily /\ fsys = FsOne /\ dirRev = FALSE /\ proc = ProcNone
    /\ state = "START"
    /\ mySock = NoSocket
    /\ step = "none"
    /\ exitCause = "none"
    /\ socketFile \in BOOLEAN
    /\ client = "none"
    /\ traceResult = EmptyTrace
    /\ runtimeRoots = EmptyRoots
    /\ sendPos = 0
    /\ out = <<>>
    /\ previous = NoPrevious

Env == << argv, opts, fsys, dirRev, proc, call >>

\* The process ends: an uncaught exception (std::terminate) or a signal
\* whose disposition is the default one.  Its sockets are closed by the
\* kernel; nothing unlinks the socket file.
Exit(cause) ==
    /\ state' = "EXITED"
    /\ step' = "none"
    /\ exitCause' = cause
    /\ client' = "none"
    /\ traceResult' = EmptyTrace
    /\ runtimeRoots' = EmptyRoots
    /\ sendPos' = 0
    /\ out' = <<>>
    /\ previous' = NoPrevious
    /\ mySock' = NoSocket
    /\ UNCHANGED Env

\* const GlobalOpts opts = parseCmdLine(argc, argv); usage() ends the
\* process with exit(1).
ParseCmdLine ==
    /\ state = "START"
    /\ \E nullPath \in {"crash", "empty"} :
         LET r == parseCmdLine(argv, nullPath)
         IN IF r.end = "returned"
            THEN /\ opts' = r.opts
                 /\ state' = "INIT"
                 /\ UNCHANGED << argv, fsys, dirRev, proc, call, previous, mySock, step,
                                 exitCause, socketFile, client, traceResult,
                                 runtimeRoots, sendPos, out >>
            ELSE Exit(r.end) /\ UNCHANGED socketFile

\* strlen(opts.socketPath.c_str())
SocketPathLen == Len(PathString(opts.socketPath))

\* strcpy(addr.sun_path, opts.socketPath.c_str()) writes the path and its
\* terminating zero: past the end of sun_path when they do not fit.
SunPathOverflow == SocketPathLen + 1 > SunPathSize

\* The file bind creates has the permissions the umask leaves; main never
\* changes them.
BoundAt(where) == [bound |-> where, mode |-> "umask"]

\* socket, unlink(socketPath), strcpy, bind, listen (main, before the loop).
\* Writing past the end of sun_path is undefined: the process is ended
\* ("crash"), or bind is given the first SunPathSize bytes and binds there
\* ("truncated") or fails ("bindError").
SocketSetup ==
    /\ state = "INIT"
    /\ IF SunPathOverflow
       THEN \E outcome \in {"crash", "truncated", "bindError"} :
              /\ socketFile' = FALSE
              /\ CASE outcome = "crash" -> Exit("overflow")
                   [] outcome = "bindError" -> Exit("startup")
                   [] outcome = "truncated" ->
                        /\ state' = "LISTENING"
                        /\ mySock' = BoundAt("truncated")
                        /\ UNCHANGED << Env, previous, step, exitCause, client,
                                        traceResult, runtimeRoots, sendPos, out >>
       ELSE \E bindOk \in BOOLEAN, listenOk \in BOOLEAN :
              IF bindOk /\ listenOk
              THEN /\ state' = "LISTENING"
                   /\ socketFile' = TRUE
                   /\ mySock' = BoundAt("socketPath")
                   /\ UNCHANGED << Env, previous, step, exitCause, client, traceResult,
                                   runtimeRoots, sendPos, out >>
              ELSE /\ socketFile' = bindOk
                   /\ Exit("startup")

\* An accept whose connection goes on with the bytes of the previous one.
AcceptSameConnection ==
    /\ state = "LISTENING"
    /\ state' = "SERVING"
    /\ step' = "trace"
    /\ client' = "connected"
    /\ sendPos' = 0
    /\ UNCHANGED << Env, previous, mySock, exitCause, socketFile, traceResult, runtimeRoots, out >>

\* accept returns a connection.
Accept ==
    /\ state = "LISTENING"
    /\ state' = "SERVING"
    /\ step' = "trace"
    /\ client' = "connected"
    /\ out' = <<>>
    /\ sendPos' = 0
    /\ UNCHANGED << Env, previous, mySock, exitCause, socketFile, traceResult, runtimeRoots >>

\* accept fails: EINTR retries, any other error throws.
AcceptError ==
    /\ state = "LISTENING"
    /\ \E eintr \in BOOLEAN :
         IF eintr THEN UNCHANGED vars
         ELSE Exit("accept") /\ UNCHANGED socketFile

\* A trace that removes the dead links it finds.
TraceRemovingDeadLinks ==
    /\ state = "SERVING" /\ step = "trace"
    /\ traceResult' = followPathsToStore(standardRoots)
    /\ fsys' = [p \in DOMAIN fsys |->
                  IF p \in followPathsToStore(standardRoots).deadLinks
                  THEN NoNode ELSE fsys[p]]
    /\ step' = "runtime"
    /\ UNCHANGED << argv, opts, dirRev, proc, call, previous, mySock, state, exitCause,
                    socketFile, client, runtimeRoots, sendPos, out >>

\* auto traceResult = followPathsToStore(opts, standardRoots);
Trace ==
    /\ state = "SERVING" /\ step = "trace"
    /\ traceResult' = followPathsToStore(standardRoots)
    /\ step' = "runtime"
    /\ UNCHANGED << Env, previous, mySock, state, exitCause, socketFile, client, runtimeRoots, sendPos, out >>

\* auto runtimeRoots = getRuntimeRoots(opts); an exception is not caught.
RuntimeScan ==
    /\ state = "SERVING" /\ step = "runtime"
    /\ LET r == getRuntimeRoots
       IN IF r.exc
          THEN Exit("exception") /\ UNCHANGED socketFile
          ELSE /\ runtimeRoots' = r.res
               /\ step' = "merge"
               /\ UNCHANGED << Env, previous, mySock, state, exitCause, socketFile, client,
                               traceResult, sendPos, out >>

\* traceResult.storeRoots.insert(runtimeRoots.begin(), runtimeRoots.end());
Merge ==
    /\ state = "SERVING" /\ step = "merge"
    /\ traceResult' = [traceResult EXCEPT
                          !.storeRoots = MapInsertRange(@, runtimeRoots)]
    /\ step' = "roots"
    /\ UNCHANGED << Env, previous, mySock, state, exitCause, socketFile, client, runtimeRoots, sendPos, out >>

RECURSIVE RootPairsFirstOnly(_, _, _)
\* A roots loop that visits only the first external root of each key.
RootPairsFirstOnly(roots, keys, i) ==
    IF i > Len(keys) THEN <<>>
    ELSE <<  <<keys[i], SortedSeq(roots[keys[i]])[1]>>  >>
         \o RootPairsFirstOnly(roots, keys, i + 1)

\* The (key, root) pairs of a roots map in the order main's nested loops
\* visit them: keys ascending, the roots of a key ascending.
RECURSIVE RootPairs(_, _, _)
RootPairs(roots, keys, i) ==
    IF i > Len(keys) THEN <<>>
    ELSE LET rs == SortedSeq(roots[keys[i]])
         IN [j \in 1..Len(rs) |-> <<keys[i], rs[j]>>] \o RootPairs(roots, keys, i + 1)

RootLines(tr) == RootPairs(tr.storeRoots, SortedSeq(DOMAIN tr.storeRoots), 1)
DeadLines(tr) == SortedSeq(tr.deadLinks)

\* The four sends of one roots line, the two sends of one dead-link line.
RootLineBytes(pair) == PathString(pair[1]) \o <<"\t">> \o PathString(pair[2]) \o <<"\n">>
DeadLineBytes(deadLink) == PathString(deadLink) \o <<"\n">>
\* A response without the separator.
SeparatorBytesOmitted == <<>>

SeparatorBytes == <<"\n">>

\* send(remoteSocket, ...) appends to what the client receives; on a socket
\* whose peer is gone it raises SIGPIPE, whose disposition main never
\* changes: the process is terminated.
Send(bytes, nextStep, nextPos) ==
    IF client = "gone"
    THEN Exit("sigpipe") /\ UNCHANGED socketFile
    ELSE /\ out' = IF Len(bytes) = 0 THEN out ELSE Append(out, bytes)
         /\ step' = nextStep
         /\ sendPos' = nextPos
         /\ UNCHANGED << Env, previous, mySock, state, exitCause, socketFile, client, traceResult,
                         runtimeRoots >>

\* One iteration of the inner loop over the external roots of a key.
SendRootLine ==
    /\ state = "SERVING" /\ step = "roots"
    /\ sendPos < Len(RootLines(traceResult))
    /\ Send(RootLineBytes(RootLines(traceResult)[sendPos + 1]), "roots", sendPos + 1)

\* send(remoteSocket, "\n", strlen("\n"), 0) after the roots loop.
SendSeparator ==
    /\ state = "SERVING" /\ step = "roots"
    /\ sendPos = Len(RootLines(traceResult))
    /\ Send(SeparatorBytes, "deadLinks", 0)

\* One iteration of the loop over traceResult.deadLinks.
SendDeadLine ==
    /\ state = "SERVING" /\ step = "deadLinks"
    /\ sendPos < Len(DeadLines(traceResult))
    /\ Send(DeadLineBytes(DeadLines(traceResult)[sendPos + 1]), "deadLinks", sendPos + 1)

\* close(remoteSocket); the loop starts over with accept.
CloseClient ==
    /\ state = "SERVING" /\ step = "deadLinks"
    /\ sendPos = Len(DeadLines(traceResult))
    /\ state' = "LISTENING"
    /\ step' = "none"
    /\ client' = "none"
    /\ traceResult' = EmptyTrace
    /\ runtimeRoots' = EmptyRoots
    /\ sendPos' = 0
    /\ previous' = [served |-> TRUE, result |-> traceResult, bytes |-> out]
    /\ UNCHANGED << Env, mySock, exitCause, socketFile, out >>

\* The peer closes its end of the connection.
ClientDisconnect ==
    /\ state = "SERVING" /\ client = "connected"
    /\ client' = "gone"
    /\ UNCHANGED << Env, previous, mySock, state, step, exitCause, socketFile, traceResult,
                    runtimeRoots, sendPos, out >>

TerminationSignals == {"SIGINT", "SIGTERM", "SIGHUP"}

\* A termination signal is delivered.  main installs no handler and blocks
\* no signal: the default disposition ends the process at once.
Signal ==
    /\ state \in {"LISTENING", "SERVING"}
    /\ \E sig \in TerminationSignals : Exit(sig)
    /\ UNCHANGED socketFile

Next ==
    \/ ParseCmdLine
    \/ SocketSetup
    \/ Accept
    \/ AcceptError
    \/ Trace
    \/ RuntimeScan
    \/ Merge
    \/ SendRootLine
    \/ SendSeparator
    \/ SendDeadLine
    \/ CloseClient
    \/ ClientDisconnect
    \/ Signal

Spec == Init /\ [][Next]_vars

\* ------------------------------------------------------------------------
\* isInStore on its own
\* ------------------------------------------------------------------------

\* Store directories and the non-empty paths tested against them: the store
\* directory itself, paths below it, its parents, paths of which it is only
\* a string prefix, and paths that hold its components further right.
StoreDirInputs ==
    { <<"/", "nix", "store">>, <<"/", "nix">>, <<"/", "t">>, <<"/">>,
      <<"nix", "store">>, <<"store">> }

DirInputs ==
    { <<"/">>, <<"/", "nix">>, <<"/", "nix", "store">>, <<"/", "nix", "store", "abc">>,
      <<"/", "nix", "store", "abc", "bin">>, <<"/", "nix", "storeOther", "x">>,
      <<"/", "nix", "storeOther">>, <<"/", "nixOther", "store", "abc">>,
      <<"/", "t", "nix", "store", "abc">>,
      <<"/", "nix", "nix", "store", "abc">>, <<"/", "nix", "store", "nix", "store">>,
      <<"/", "t">>, <<"/", "t", "x">>, <<"/", "proc", "42", "exe">>,
      <<"nix", "store", "abc">>, <<"store", "abc">>, <<"abc">>,
      <<"..", "..", "nix", "store", "abc">>,
      <<"/", "nix", "var", "nix", "gcroots", "..", "..", "..", "store", "abc">>,
      <<"/", "nix", "store", "..", "var">>, <<"/", "store">> }

InitIsInStore ==
    /\ call \in { [storeDir |-> s, dir |-> d, done |-> FALSE, result |-> FALSE] :
                     s \in StoreDirInputs, d \in DirInputs }
    /\ argv = <<>>
    /\ opts = DefaultOpts
    /\ fsys = FsOne
    /\ dirRev = FALSE
    /\ proc = ProcNone
    /\ state = "START"
    /\ step = "none"
    /\ exitCause = "none"
    /\ mySock = NoSocket
    /\ socketFile = FALSE
    /\ client = "none"
    /\ traceResult = EmptyTrace
    /\ runtimeRoots = EmptyRoots
    /\ sendPos = 0
    /\ out = <<>>
    /\ previous = NoPrevious

\* isInStore(call.storeDir, call.dir) returns.
ApplyIsInStore ==
    /\ ~call.done
    /\ call' = [call EXCEPT !.done = TRUE, !.result = isInStore(call.storeDir, call.dir)]
    /\ UNCHANGED << argv, opts, fsys, dirRev, proc, state, step, exitCause, mySock,
                    socketFile, client, traceResult, runtimeRoots, sendPos, out,
                    previous >>

NextIsInStore == ApplyIsInStore

SpecIsInStore == InitIsInStore /\ [][NextIsInStore]_vars

\* ------------------------------------------------------------------------
\* Properties
\* ------------------------------------------------------------------------

\* followPathsToStore has returned and nothing has been merged into its result.
TraceDone == state = "SERVING" /\ step = "runtime"

\* Every line of the response has been sent; close(remoteSocket) is next.
ResponseSent ==
    /\ state = "SERVING" /\ step = "deadLinks"
    /\ sendPos = Len(DeadLines(traceResult))

\* The existing store object the modelled links and processes refer to.
storeObject == PathJoin(storePath, <<"abc">>)

\* The links 1..n form a readable chain that ends at target.
IsChain(n, target) ==
    \A i \in 1..n :
        fsys[ChainLink(i)] = LinkNode(IF i < n THEN ChainLink(i + 1) ELSE target, FALSE)

HasRoot(roots, k, r) == k \in DOMAIN roots /\ r \in roots[k]
RootsOf(roots, k) == IF k \in DOMAIN roots THEN roots[k] ELSE {}
AllRoots(roots) == UNION { roots[k] : k \in DOMAIN roots }

\* The lines sent so far, each without the newline that ends it.
ResponseLines == [i \in 1..Len(out) |-> SubSeq(out[i], 1, Len(out[i]) - 1)]
IsBlank(line) == Len(line) = 0
HasTab(line) == \E i \in 1..Len(line) : line[i] = "\t"

\* The (key, root) pairs of the lines that precede the first blank line.
EmittedPairs ==
    LET lines == ResponseLines
        firstBlank == CHOOSE i \in 1..Len(lines) :
                         IsBlank(lines[i]) /\ \A j \in 1..(i - 1) : ~IsBlank(lines[j])
    IN { LET f == SplitOn(lines[i], {"\t"}, TRUE, <<>>)
         IN <<ParsePath(f[1]), ParsePath(f[2])>> : i \in 1..(firstBlank - 1) }

\* C1: for a symlink chain of length 1 or 2 from gcroots to an existing store
\* object, the roots map returned by followPathsToStore has the store object
\* as a key and the first link of the chain among its roots.
C1_FirstLinkIsRoot ==
    TraceDone =>
        \A n \in 1..2 :
            (IsChain(n, storeObject) /\ Exists(storeObject))
                => HasRoot(traceResult.storeRoots, storeObject, ChainLink(1))

\* C2: the external roots emitted for a store path are the union of the roots
\* the tracer found for it and the roots the runtime scanner found for it.
C2_ResponseIsUnion ==
    ResponseSent =>
        LET traced == followPathsToStore(standardRoots).storeRoots
            runtime == getRuntimeRoots.res
        IN \A k \in DOMAIN traced \cup DOMAIN runtime :
              { pr[2] : pr \in { x \in EmittedPairs : x[1] = k } }
                  = RootsOf(traced, k) \cup RootsOf(runtime, k)

\* C3: no path is both a dead link and an external root in one trace result.
C3_DeadLinksDisjointFromRoots ==
    traceResult.deadLinks \cap AllRoots(traceResult.storeRoots) = {}

\* C4: every dead link is a symlink whose own target is missing or cannot be
\* stat'ed.
C4_DeadLinkTargetMissing ==
    \A d \in traceResult.deadLinks :
        /\ SymlinkStatus(d) = "symlink"
        /\ SymlinkStatus(SymlinkTarget(d)) \in {"not_found", "error"}

\* The store-object lexical rule [0-9a-z]+[0-9a-zA-Z+\-._?=]* .
ValidStoreName(cs) ==
    /\ Len(cs) > 0
    /\ cs[1] \in NameFirstClass
    /\ \A i \in 2..Len(cs) : cs[i] \in NameRestClass

\* C5: every key of the roots map is the store directory followed by one
\* name that obeys the store-object lexical rule.
C5_KeysAreStoreObjects ==
    \A k \in DOMAIN traceResult.storeRoots :
        /\ Len(k) = Len(opts.storeDir) + 1
        /\ SubSeq(k, 1, Len(opts.storeDir)) = opts.storeDir
        /\ ValidStoreName(CharsOf(k[Len(k)]))

\* C6: a chain of three symlinks from gcroots to a store object yields no
\* roots-map entry for the store object through a link of the chain.
C6_ThreeLinkChainNotRecorded ==
    (TraceDone /\ IsChain(3, storeObject) /\ Exists(storeObject))
        => \A i \in 1..3 : ~HasRoot(traceResult.storeRoots, storeObject, ChainLink(i))

\* C7: a failure of the scan of a request never ends the daemon.
C7_ScanFailureKeepsDaemon == ~(state = "EXITED" /\ exitCause = "exception")

\* C8: a client that disconnects while the response is sent never ends the
\* daemon.
C8_DisconnectKeepsDaemon == ~(state = "EXITED" /\ exitCause = "sigpipe")

\* C9: after the daemon has ended on SIGINT, SIGTERM or SIGHUP the socket
\* file no longer exists.
C9_SignalUnlinksSocket ==
    (state = "EXITED" /\ exitCause \in TerminationSignals) => ~socketFile

\* C10: in a response sent to completion there is exactly one blank line;
\* the lines before it are the roots lines, one per (key, root) pair, and the
\* lines after it are the dead-link lines, one per dead link.
C10_SectionsAroundOneSeparator ==
    ResponseSent =>
        LET lines == ResponseLines
            blanks == { i \in 1..Len(lines) : IsBlank(lines[i]) }
        IN /\ Cardinality(blanks) = 1
           /\ \A s \in blanks :
                /\ \A j \in 1..(s - 1) : HasTab(lines[j])
                /\ \A j \in (s + 1)..Len(lines) : ~HasTab(lines[j])
                /\ s - 1 = Len(RootLines(traceResult))
                /\ Len(lines) - s = Cardinality(traceResult.deadLinks)

\* C10 witness: a complete response with both sections non-empty.
C10_Witness ==
    /\ ResponseSent
    /\ DOMAIN traceResult.storeRoots # {}
    /\ traceResult.deadLinks # {}

\* The (key, root) pairs of the lines that precede the first blank line, in
\* the order in which the lines were received.
RootSectionPairs ==
    LET lines == ResponseLines
        firstBlank == CHOOSE i \in 1..Len(lines) :
                         IsBlank(lines[i]) /\ \A j \in 1..(i - 1) : ~IsBlank(lines[j])
    IN [ i \in 1..(firstBlank - 1) |->
           LET f == SplitOn(lines[i], {"\t"}, TRUE, <<>>)
           IN <<ParsePath(f[1]), ParsePath(f[2])>> ]

\* C11: in a response sent to completion, every (key, root) pair of the roots
\* map is on exactly one line of the roots section, a key with k roots is on
\* exactly k lines, and every line of the section is a pair of the map.
C11_OneLinePerPair ==
    ResponseSent =>
        LET ps == RootSectionPairs
            map == traceResult.storeRoots
        IN /\ \A k \in DOMAIN map : \A r \in map[k] :
                 Cardinality({ i \in 1..Len(ps) : ps[i] = <<k, r>> }) = 1
           /\ \A k \in DOMAIN map :
                 Cardinality({ i \in 1..Len(ps) : ps[i][1] = k }) = Cardinality(map[k])
           /\ \A i \in 1..Len(ps) : HasRoot(map, ps[i][1], ps[i][2])

\* C11 witness: a complete response for a store object with several roots,
\* one of them a file the directory walk visits twice (gcroots/d/abc is an
\* entry of the walk of gcroots and of the walk of gcroots/d).
C11_Witness ==
    /\ ResponseSent
    /\ Cardinality(RootsOf(traceResult.storeRoots, storeObject)) >= 2
    /\ HasRoot(traceResult.storeRoots, storeObject, PathJoin(gcroots, <<"d", "abc">>))

C13_ErrorRecoveredLocally ==
    TraceDone =>
        \A start \in standardRoots : \A f \in DOMAIN fsys :
            ( /\ SymlinkStatus(start) = "directory"
              /\ ~fsys[start].err
              /\ ParentPath(f) = start
              /\ SymlinkStatus(f) = "regular"
              /\ Exists(PathJoin(opts.storeDir, Filename(f))) )
                => HasRoot(traceResult.storeRoots,
                           PathJoin(opts.storeDir, Filename(f)), f)

\* C14: for a dead link whose own target is missing or cannot be stat'ed, the
\* target is not a key of the roots map and the link is not recorded as a root
\* of the store path probed from its basename.
C14_DeadLinkBranchStops ==
    TraceDone =>
        \A d \in traceResult.deadLinks :
            ( /\ SymlinkStatus(d) = "symlink"
              /\ SymlinkStatus(SymlinkTarget(d)) \in {"not_found", "error"} )
                => /\ SymlinkTarget(d) \notin DOMAIN traceResult.storeRoots
                   /\ ~HasRoot(traceResult.storeRoots,
                               PathJoin(opts.storeDir, Filename(d)), d)

\* p lies below dir and every directory between the two is a real directory.
Below(p, dir) ==
    /\ Len(p) > Len(dir)
    /\ SubSeq(p, 1, Len(dir)) = dir
    /\ \A n \in Len(dir)..(Len(p) - 1) : SymlinkStatus(SubSeq(p, 1, n)) = "directory"

\* Nothing below dir raises a filesystem error when it is visited.
ErrorFree(dir) ==
    \A p \in DOMAIN fsys :
        Below(p, dir) => (fsys[p].kind # "noaccess" /\ ~fsys[p].err)

\* The directories the tracer walks to the end: a starting directory, or a
\* directory a chain of at most maxRecursionLevel links from gcroots ends at,
\* with no error below it.
WalkedDirs ==
    { d \in standardRoots \cup { PathJoin(outside, <<"dir">>) } :
        /\ SymlinkStatus(d) = "directory"
        /\ ~fsys[d].err
        /\ ErrorFree(d)
        /\ d \in standardRoots \/ \E n \in 1..maxRecursionLevel : IsChain(n, d) }

\* C15: a regular file F reached by the tracer is a root of storeDir/basename(F)
\* exactly when that path exists, and it is a root of no other key.
C15_RegularFileProbe ==
    TraceDone =>
        \A d \in WalkedDirs : \A F \in DOMAIN fsys :
            (Below(F, d) /\ SymlinkStatus(F) = "regular")
                => LET probe == PathJoin(opts.storeDir, Filename(F))
                   IN /\ HasRoot(traceResult.storeRoots, probe, F) <=> Exists(probe)
                      /\ \A k \in DOMAIN traceResult.storeRoots :
                            F \in traceResult.storeRoots[k] => k = probe

\* C15 witness: a file of a sub-directory of gcroots is recorded under the
\* store object that has its basename.
C15_Witness ==
    /\ TraceDone
    /\ SymlinkStatus(PathJoin(gcroots, <<"d">>)) = "directory"
    /\ gcroots \in WalkedDirs
    /\ SymlinkStatus(PathJoin(gcroots, <<"d", "abc">>)) = "regular"
    /\ HasRoot(traceResult.storeRoots, storeObject, PathJoin(gcroots, <<"d", "abc">>))

\* getRuntimeRoots has returned and nothing has been merged yet.
RuntimeScanDone == state = "SERVING" /\ step = "merge"

\* A name made of decimal digits only.
PurelyDecimal(name) ==
    /\ Len(name) > 0
    /\ \A i \in 1..Len(name) :
          name[i] \in {"0", "1", "2", "3", "4", "5", "6", "7", "8", "9"}

\* The exe, cwd and fd/* links of a /proc entry: <<path, link>>.
ProcessLinks(e) ==
    LET dir == <<"/", "proc", JoinChars(e.name)>>
    IN { <<dir \o <<"exe">>, e.exe>>, <<dir \o <<"cwd">>, e.cwd>> }
       \cup { <<dir \o <<"fd", JoinChars(e.fds[i].name)>>, e.fds[i].link>> :
                 i \in 1..Len(e.fds) }

\* C16: after a runtime scan, every readable exe, cwd and fd/* link of a
\* process directory with a purely decimal name whose target is inside the
\* store is a root of its target; no path below another entry of /proc is a
\* root.
C16_ProcessLinksRecorded ==
    RuntimeScanDone =>
        \A i \in 1..Len(proc.entries) :
            LET e == proc.entries[i]
                dir == <<"/", "proc", JoinChars(e.name)>>
            IN IF PurelyDecimal(e.name) /\ e.isDir
               THEN \A l \in ProcessLinks(e) :
                       (l[2].ok /\ isInStore(opts.storeDir, l[2].target))
                           => HasRoot(runtimeRoots, l[2].target, l[1])
               ELSE \A r \in AllRoots(runtimeRoots) :
                       ~(Len(r) > Len(dir) /\ SubSeq(r, 1, Len(dir)) = dir)

\* C16 witness: the exe and fd/3 links of process 42 are recorded, next to an
\* entry of /proc that is not a process directory and has a link into the
\* store.
C16_Witness ==
    /\ RuntimeScanDone
    /\ \E k \in DOMAIN runtimeRoots : <<"/", "proc", "42", "exe">> \in runtimeRoots[k]
    /\ HasRoot(runtimeRoots, storeObject, <<"/", "proc", "42", "fd", "3">>)
    /\ \E i \in 1..Len(proc.entries) :
          /\ ~(PurelyDecimal(proc.entries[i].name) /\ proc.entries[i].isDir)
          /\ proc.entries[i].exe.ok
          /\ isInStore(opts.storeDir, proc.entries[i].exe.target)

\* The process of entry e has exited before or while it is inspected: the
\* listing of its fd/ ends with ENOENT (after the entries in e.fds, if it had
\* begun), its environ and maps are gone; its exe and cwd links were read
\* before the exit or cannot be read.
ProcessExited(e) ==
    /\ PurelyDecimal(e.name) /\ e.isDir
    /\ e.fdErr = "ENOENT"
    /\ ~e.environ.exists /\ ~e.maps.exists

\* /proc can be listed and every process in it is either there for the whole
\* scan or has exited.
OnlyExitsDisturb ==
    /\ proc.exists /\ ~proc.listErr
    /\ \A i \in 1..Len(proc.entries) :
          proc.entries[i].fdErr = "none" \/ ProcessExited(proc.entries[i])

\* C17: when the only disturbance of a runtime scan is processes that have
\* exited, the scan does not end the request with an exception; it records
\* the links of the processes listed after an exited one and the store paths
\* named in the kernel-configuration files.
C17_ExitedProcessHarmless ==
    OnlyExitsDisturb =>
        /\ ~(state = "EXITED" /\ exitCause = "exception")
        /\ RuntimeScanDone =>
              /\ \A i \in 1..Len(proc.entries) :
                    LET e == proc.entries[i]
                    IN (PurelyDecimal(e.name) /\ e.isDir) =>
                          \A l \in ProcessLinks(e) :
                             (l[2].ok /\ isInStore(opts.storeDir, l[2].target))
                                 => HasRoot(runtimeRoots, l[2].target, l[1])
              /\ \A f \in {"modprobe", "fbsplash", "poweroff_cmd"} :
                    ( /\ proc.kernel[f].exists
                      /\ StorePathMatches(opts.storeDir, proc.kernel[f].text, 1) # <<>> )
                        => <<"/", "proc", "sys", "kernel", f>> \in AllRoots(runtimeRoots)

\* C17 witness: process 42 has exited, the scan has returned with the exe
\* link of process 7 and with the store path named in modprobe.
C17_Witness ==
    /\ RuntimeScanDone
    /\ OnlyExitsDisturb
    /\ \E i \in 1..Len(proc.entries) :
          ProcessExited(proc.entries[i]) /\ ~proc.entries[i].exe.ok
    /\ HasRoot(runtimeRoots, storeObject, <<"/", "proc", "7", "exe">>)
    /\ HasRoot(runtimeRoots, storeObject, <<"/", "proc", "sys", "kernel", "modprobe">>)

\* main has parsed the command line and left socket setup behind.
SetupLeft == state \in {"LISTENING", "SERVING", "EXITED"} /\ exitCause \notin {"usage", "nullarg"}

\* The daemon accepts connections.
Listening == state \in {"LISTENING", "SERVING"}

\* The socket path does not fit into sun_path (path.size() + 1 >=
\* sizeof(sun_path)) while its last component does.
OnlyDirectoryTooLong ==
    /\ SocketPathLen + 1 >= SunPathSize
    /\ Len(PathString(Filename(opts.socketPath))) + 1 < SunPathSize

\* C18: with a socket path too long for sun_path whose last component fits,
\* the path is never copied past the end of sun_path, and a daemon that
\* accepts connections is bound at the configured socket path.
C18_LongSocketPathBinds ==
    (SetupLeft /\ OnlyDirectoryTooLong) =>
        /\ exitCause # "overflow"
        /\ Listening => mySock.bound = "socketPath"

\* C19: a daemon that accepts connections has restricted the permissions of
\* its socket file to read and write for owner and group.
C19_ListeningOnlyAfterChmod ==
    Listening => mySock.mode = "0660"

\* An option that is documented to take a path.
TakesPath(a) ==
    a.kind # "word" /\ a.name \in {"s", "store_dir", "d", "state_dir", "l", "socket_path"}

\* Every option of args that takes a path is followed by one.
WellFormed(args) ==
    \A i \in 1..Len(args) :
        TakesPath(args[i]) => (i < Len(args) /\ args[i + 1].kind = "word")

\* The path given with the last occurrence of one of the options names,
\* or default when there is none.
Given(args, names, default) ==
    LET at == { i \in 1..Len(args) : args[i].kind # "word" /\ args[i].name \in names }
    IN IF at = {} THEN default
       ELSE args[(CHOOSE i \in at : \A j \in at : j <= i) + 1].path

\* C20: after a well-formed command line has been parsed, the store root is
\* the path given with -s, the state root the one given with -d, the socket
\* path the one given with -l or, without -l, <state root>/gc-socket/socket.
C20_OptionsTakeEffect ==
    (state # "START" /\ WellFormed(argv)) =>
        LET stateRoot == Given(argv, {"d", "state_dir"}, <<"/", "nix", "var", "nix">>)
        IN /\ exitCause \notin {"usage", "nullarg"}
           /\ opts.storeDir = Given(argv, {"s", "store_dir"}, <<"/", "nix", "store">>)
           /\ opts.stateDir = stateRoot
           /\ opts.socketPath =
                 Given(argv, {"l", "socket_path"}, stateRoot \o <<"gc-socket", "socket">>)

\* The components of p begin with all the components of s.
BeginsWith(p, s) == Len(p) >= Len(s) /\ SubSeq(p, 1, Len(s)) = s

\* C21: isInStore(storeDir, dir) returns true exactly when the components of
\* dir begin with all the components of storeDir.
C21_IsInStoreIsComponentPrefix ==
    call.done => (call.result <=> BeginsWith(call.dir, call.storeDir))

\* C21 witness: isInStore has answered for /nix/storeOther/x, of which
\* /nix/store is a string prefix only.
C21_Witness ==
    /\ call.done
    /\ call.storeDir = <<"/", "nix", "store">>
    /\ call.dir = <<"/", "nix", "storeOther", "x">>
    /\ ~call.result

RECURSIVE Flatten(_)
\* The byte stream the client reads: the sent lines one after the other.
Flatten(chunks) == IF Len(chunks) = 0 THEN <<>> ELSE Head(chunks) \o Flatten(Tail(chunks))

\* The response read by the documented grammar: the lines of the byte
\* stream; the first blank line is the separator; a line before it is
\* <key> TAB <root>, split at its first tab; a line after it is a dead link.
WireLines == SplitOn(Flatten(out), {"\n"}, TRUE, <<>>)

WireSeparator ==
    CHOOSE i \in 1..Len(WireLines) :
        IsBlank(WireLines[i]) /\ \A j \in 1..(i - 1) : ~IsBlank(WireLines[j])

FirstTab(line) ==
    IF HasTab(line)
    THEN CHOOSE i \in 1..Len(line) : line[i] = "\t" /\ \A j \in 1..(i - 1) : line[j] # "\t"
    ELSE Len(line) + 1

ParsedPair(line) ==
    << ParsePath(SubSeq(line, 1, FirstTab(line) - 1)),
       ParsePath(SubSeq(line, FirstTab(line) + 1, Len(line))) >>

ParsedRootPairs == [i \in 1..(WireSeparator - 1) |-> ParsedPair(WireLines[i])]
ParsedDeadLinks ==
    [i \in 1..(Len(WireLines) - WireSeparator) |-> ParsePath(WireLines[WireSeparator + i])]

\* The parsed response written out again, line by line.
ReEmitted ==
    Flatten([i \in 1..Len(ParsedRootPairs) |-> RootLineBytes(ParsedRootPairs[i])])
    \o <<"\n">>
    \o Flatten([i \in 1..Len(ParsedDeadLinks) |-> DeadLineBytes(ParsedDeadLinks[i])])

\* The (key, root) pairs of a roots map.
PairsOf(roots) == UNION { { <<k, r>> : r \in roots[k] } : k \in DOMAIN roots }

\* C22: parsing a complete response by the documented grammar recovers the
\* pairs of the roots map and the dead links that were serialized, and
\* writing the parsed response out again yields the bytes received.
C22_ResponseRoundTrip ==
    ResponseSent =>
        /\ { ParsedRootPairs[i] : i \in 1..Len(ParsedRootPairs) }
             = PairsOf(traceResult.storeRoots)
        /\ { ParsedDeadLinks[i] : i \in 1..Len(ParsedDeadLinks) } = traceResult.deadLinks
        /\ ReEmitted = Flatten(out)

\* C23: a symlink is never recorded as a root of the store path probed from
\* its basename, unless that path is the link's own target.
C23_ProbeOnlyForRegular ==
    TraceDone =>
        \A l \in DOMAIN fsys :
            LET probe == PathJoin(opts.storeDir, Filename(l))
            IN (SymlinkStatus(l) = "symlink" /\ SymlinkTarget(l) # probe)
                   => ~HasRoot(traceResult.storeRoots, probe, l)

\* C24: when the starting paths lie outside the store, the tracer is never
\* invoked on a path inside the store and enumerates no directory there.
C24_StorePathsAreLeaves ==
    (TraceDone /\ \A start \in standardRoots : ~isInStore(opts.storeDir, start))
        => \A p \in ConsideredPaths(standardRoots) : ~isInStore(opts.storeDir, p)

\* C25: when the state directory and /proc lie outside the store, every root
\* recorded for a key is outside the store or is the key itself.
C25_RootsOutsideStore ==
    ( /\ state = "SERVING" /\ step # "trace"
      /\ ~isInStore(opts.storeDir, opts.stateDir)
      /\ ~isInStore(opts.storeDir, <<"/", "proc">>) )
        => \A k \in DOMAIN traceResult.storeRoots :
               \A r \in traceResult.storeRoots[k] :
                   ~isInStore(opts.storeDir, r) \/ r = k

\* C26: the entries of an enumerated directory, at every depth, are visited
\* with the budget of the directory; the existing target of a followed
\* symlink is visited with one hop less; no visit of an existing path has a
\* budget that these two rules and the starting budget do not give; and a
\* regular file visited within the budget is probed.
C26_DescentKeepsBudget ==
    TraceDone =>
        LET inv == Invocations(standardRoots)
        IN /\ \A c \in inv :
                 ( /\ SymlinkStatus(c[1]) = "directory" /\ c[2] >= 0
                   /\ ~Node(c[1]).err /\ ErrorFree(c[1]) )
                     => \A p \in DOMAIN fsys :
                            (Below(p, c[1]) /\ fsys[p].kind # "none")
                                => <<p, c[2]>> \in inv
           /\ \A c \in inv :
                 ( /\ SymlinkStatus(c[1]) = "symlink" /\ c[2] >= 0 /\ ~Node(c[1]).err
                   /\ Exists(SymlinkTarget(c[1]))
                   /\ ~isInStore(opts.storeDir, SymlinkTarget(c[1])) )
                     => <<SymlinkTarget(c[1]), c[2] - 1>> \in inv
           /\ \A c \in inv :
                 Exists(c[1]) =>
                     \/ c[1] \in standardRoots /\ c[2] = maxRecursionLevel
                     \/ \E d \in inv : /\ SymlinkStatus(d[1]) = "directory"
                                       /\ Below(c[1], d[1]) /\ d[2] = c[2]
                     \/ \E l \in inv : /\ SymlinkStatus(l[1]) = "symlink"
                                       /\ SymlinkTarget(l[1]) = c[1] /\ l[2] = c[2] + 1
           /\ \A c \in inv :
                 LET probe == PathJoin(opts.storeDir, Filename(c[1]))
                 IN (SymlinkStatus(c[1]) = "regular" /\ c[2] >= 0 /\ Exists(probe))
                        => HasRoot(traceResult.storeRoots, probe, c[1])

\* C26 witness: the directory /t/dir is reached through two links, its entry
\* abc is visited with the budget 0 that is left, and is recorded.
C26_Witness ==
    /\ TraceDone
    /\ IsChain(2, PathJoin(outside, <<"dir">>))
    /\ <<PathJoin(outside, <<"dir">>), 0>> \in Invocations(standardRoots)
    /\ <<PathJoin(outside, <<"dir", "abc">>), 0>> \in Invocations(standardRoots)
    /\ HasRoot(traceResult.storeRoots, storeObject, PathJoin(outside, <<"dir", "abc">>))

\* C27: the trace ends on filesystems with symlink cycles and with links to
\* an ancestor directory: no invocation of the tracer has a budget below -1
\* or above the starting one, and every entry a directory enumeration yields
\* is reached from the directory through real directories only.
C27_TraceIsBounded ==
    TraceDone =>
        LET inv == Invocations(standardRoots)
        IN /\ \A c \in inv : -1 <= c[2] /\ c[2] <= maxRecursionLevel
           /\ \A c \in inv :
                 (SymlinkStatus(c[1]) = "directory" /\ ~Node(c[1]).err)
                     => \A i \in 1..Len(RecursiveDirSeq(c[1])) :
                            Below(RecursiveDirSeq(c[1])[i], c[1])

\* C27 witness: gcroots/a points to /nix, an ancestor of gcroots; the trace
\* is done, and the link and /nix were visited until the budget ran out.
C27_Witness ==
    /\ TraceDone
    /\ IsChain(1, <<"/", "nix">>)
    /\ <<ChainLink(1), 0>> \in Invocations(standardRoots)
    /\ <<(<<"/", "nix">>), -1>> \in Invocations(standardRoots)

\* The listing of fd/ of entry e ended with an error other than ENOENT and
\* EACCES.
FdListingFails(e) ==
    /\ PurelyDecimal(e.name) /\ e.isDir
    /\ e.fdErr \notin {"none", "ENOENT", "EACCES"}

\* C28: a runtime scan returns only when no listing of a process's fd/ ended
\* with an error other than ENOENT and EACCES, and then the exe, cwd and
\* listed fd links, the environ and the maps of every process are recorded,
\* those of a process whose fd/ could not be listed and of the processes
\* after it included; when a listing ends with another error, no runtime
\* root is ever returned and nothing is sent.
C28_FdListingErrors ==
    /\ RuntimeScanDone =>
          \A i \in 1..Len(proc.entries) :
              LET e == proc.entries[i]
                  dir == <<"/", "proc", JoinChars(e.name)>>
              IN (PurelyDecimal(e.name) /\ e.isDir) =>
                    /\ ~FdListingFails(e)
                    /\ \A l \in ProcessLinks(e) :
                          (l[2].ok /\ isInStore(opts.storeDir, l[2].target))
                              => HasRoot(runtimeRoots, l[2].target, l[1])
                    /\ ( /\ e.environ.exists
                         /\ StorePathMatches(opts.storeDir, e.environ.text, 1) # <<>> )
                           => dir \o <<"environ">> \in AllRoots(runtimeRoots)
                    /\ e.maps.exists =>
                          LET lines == SplitOn(e.maps.text, {"\n"}, TRUE, <<>>)
                          IN \A n \in 1..Len(lines) :
                                ( /\ MapsLineMatch(lines[n]) # <<>>
                                  /\ isInStore(opts.storeDir,
                                               ParsePath(MapsLineMatch(lines[n]))) )
                                    => HasRoot(runtimeRoots,
                                               ParsePath(MapsLineMatch(lines[n])),
                                               dir \o <<"maps">>)
    /\ ( /\ proc.exists /\ ~proc.listErr
         /\ \E i \in 1..Len(proc.entries) : FdListingFails(proc.entries[i]) )
          => /\ runtimeRoots = EmptyRoots
             /\ out = <<>>
             /\ state = "SERVING" => step \in {"trace", "runtime"}

\* C28 witness: the listing of /proc/42/fd ended with EACCES after fd/3; the
\* scan has returned with fd/3, the environ and the maps of process 42 and
\* with the exe link of process 7.
C28_Witness ==
    /\ RuntimeScanDone
    /\ \E i \in 1..Len(proc.entries) :
          /\ proc.entries[i].name = <<"4", "2">>
          /\ proc.entries[i].fdErr = "EACCES"
    /\ HasRoot(runtimeRoots, storeObject, <<"/", "proc", "42", "fd", "3">>)
    /\ HasRoot(runtimeRoots, storeObject, <<"/", "proc", "42", "environ">>)
    /\ HasRoot(runtimeRoots, PathJoin(storeObject, <<"bin">>), <<"/", "proc", "42", "maps">>)
    /\ HasRoot(runtimeRoots, storeObject, <<"/", "proc", "7", "exe">>)

\* C29: a symlink L in a starting directory whose target is relative and,
\* taken from the directory of L, is an existing store object O is a root
\* of O, and nothing below O is visited.
C29_RelativeTargetIntoStore ==
    TraceDone =>
        \A start \in standardRoots : \A L \in DOMAIN fsys :
            LET O == Resolved(SymlinkTarget(L))
            IN ( /\ ErrorFree(start) /\ Below(L, start)
                 /\ fsys[L].kind = "symlink" /\ ~fsys[L].err
                 /\ ~IsAbsolute(fsys[L].target)
                 /\ Len(O) = Len(opts.storeDir) + 1
                 /\ isInStore(opts.storeDir, O)
                 /\ Exists(O) )
                   => /\ HasRoot(traceResult.storeRoots, O, L)
                      /\ \A c \in ConsideredPaths(standardRoots) :
                            ~Below(Resolved(c), O)

\* C30: no step of the daemon changes a file, directory or symlink, and only
\* socket setup at startup changes whether the socket file exists.
C30_ServingLeavesFilesystem ==
    [][ /\ fsys' = fsys
        /\ proc' = proc
        /\ state # "INIT" => socketFile' = socketFile ]_vars

\* C30 witness: a second request has been answered; it reported a dead link,
\* which is still there, and the socket file is still there.
C30_Witness ==
    /\ previous.served
    /\ ResponseSent
    /\ socketFile
    /\ \E l \in traceResult.deadLinks : fsys[l].kind = "symlink"

====
